---- MODULE Spec2Model ----
(***************************************************************************)
(* amibussy (src/src/main.rs): the supervisor loop of main, one generation *)
(* of run_server with its HTTP server, the afk_status_updater and          *)
(* ngrok_healthcheck tasks, the webhook_post handler, and the              *)
(* tokio::sync::Notify the tasks of a generation share.                    *)
(*                                                                         *)
(* One generation's cells (last_break_start, shutdown_signal) are created  *)
(* by run_server; tasks that outlive their generation (connections of a    *)
(* server that failed, tasks of a run_server that panicked) keep Arc       *)
(* clones of the OLD cells only, so they leave the model when the cells    *)
(* are replaced.                                                           *)
(***************************************************************************)
EXTENDS Integers, Sequences, FiniteSets, TLC

\* ------------------------------------------------------------- bounds
MaxGen == 2          \* generations the tunnel provider grants
MaxTime == 3         \* wall clock runs 1..MaxTime (seconds, abstracted)
MaxInterrupts == 1   \* SIGINTs the operator sends
MaxRun == 2          \* start events in a row that are counted
\* settings.minutes_till_afk * 60, in clock units
Threshold == 1

\* ------------------------------------------------------------- state
VARIABLES
  mainPc,            \* main: "establish" | "sleep10" | "select" | "sleep5" | "exited" | "killed"
  gen,               \* generations started so far
  sigInstalled,      \* tokio's SIGINT handler is installed (first ctrl_c() poll)
  ctrlcPending,      \* the ctrl_c() future of the current select has a signal
  interrupts,        \* SIGINTs sent so far
  interruptedIn,     \* where main stood at the latest SIGINT ("none" before the first)
  rsPc,              \* run_server: "none" | "start" | "serve" | "join_hc" | "join_afk" | "done" | "panicked"
  srv,               \* HTTP server: "none" | "unpolled" | "running" | "draining" | "exited_ok" | "exited_err" | "dropped"
  last_break_start,  \* AtomicU64 of this generation
  shutdown_signal,   \* Notify of this generation: [permit, waiters, woken]
  afkPc,             \* afk_status_updater: "none" | "loop" | "waiting" | "publishing" | "done" | "detached"
  afkRead,           \* last_break read by the tick in flight (0 when none)
  hcPc,              \* ngrok_healthcheck: "none" | "loop" | "waiting" | "probing" | "done" | "detached"
  hcExit,            \* how ngrok_healthcheck left its loop: "none" | "failed" | "cancelled"
  hcTriggers,        \* notify_one calls made by ngrok_healthcheck in this generation
  handler,           \* webhook_post in flight: "idle" | "pub_break" | "pub_busy"
  response,          \* last response of webhook_post: "none" | "200" | "200v" | "400" | "422"
  lastPub,           \* most recently issued setChatTitle: "none" | "busy" | "break" | "away"
  owed,              \* a stop event was handled; no start event and no away publish since
  leftover,          \* what the cells of the generation before held when this one
                     \* began (kept until the server of this one is first polled)
  obs,               \* what a client of /webhook and a reader of the sweeper's log
                     \* have seen (recorded by HandlerSpec only)
  now                \* wall clock

vars == <<mainPc, gen, sigInstalled, ctrlcPending, interrupts, interruptedIn, rsPc, srv,
          last_break_start, shutdown_signal, afkPc, afkRead, hcPc, hcExit,
          hcTriggers, handler, response, lastPub, owed, leftover, obs, now>>

\* every variable of the program (all but the observer's record)
progVars == <<mainPc, gen, sigInstalled, ctrlcPending, interrupts, interruptedIn, rsPc,
              srv, last_break_start, shutdown_signal, afkPc, afkRead, hcPc, hcExit,
              hcTriggers, handler, response, lastPub, owed, leftover, now>>

mainVars == <<mainPc, gen, sigInstalled, ctrlcPending, interrupts, interruptedIn>>
genVars == <<rsPc, srv>>
afkVars == <<afkPc, afkRead>>
hcVars == <<hcPc, hcExit, hcTriggers>>
hookVars == <<handler, response>>

Tasks == {"server", "afk", "hc"}

\* ------------------------------------------------------------- Notify
\* Arc::new(tokio::sync::Notify::new())
NewNotify ==
  [permit |-> FALSE, waiters |-> <<>>, woken |-> [t \in Tasks |-> "no"]]

Without(s, t) == SelectSeq(s, LAMBDA x : x # t)

InSeq(s, t) == \E i \in 1..Len(s) : s[i] = t

\* Notify::notify_one: wake the longest-waiting waiter, else store one permit
notify_one(n) ==
  IF n.waiters # <<>>
    THEN [n EXCEPT !.woken[Head(n.waiters)] = "one", !.waiters = Tail(n.waiters)]
    ELSE [n EXCEPT !.permit = TRUE]

\* Notify::notify_waiters: wake every registered waiter, store nothing
notify_waiters(n) ==
  [n EXCEPT !.woken = [t \in Tasks |-> IF InSeq(n.waiters, t) THEN "all" ELSE n.woken[t]],
            !.waiters = <<>>]

\* first poll of a Notified future that finds no permit: enqueue the waiter
register(n, t) == [n EXCEPT !.waiters = Append(n.waiters, t)]

\* first poll of a Notified future that finds the permit: consume it
consume(n) == [n EXCEPT !.permit = FALSE]

\* drop of a Notified future: leave the queue; a notify_one wake-up that was
\* not consumed is passed on
drop_notified(n, t) ==
  IF n.woken[t] = "one"
    THEN notify_one([n EXCEPT !.woken[t] = "no"])
    ELSE [n EXCEPT !.woken[t] = "no", !.waiters = Without(n.waiters, t)]

ProcessAlive == mainPc \notin {"exited", "killed"}

\* ------------------------------------------------------------- observer
\* Nothing seen yet.  seq: parity of the POST requests served; req: the body
\* of the latest one; pubs: setChatTitle requests it sent; status, body: its
\* response ("none" while it awaits its publish); outcome: how its publish
\* ended; run, busy: start events in a row and the busy publishes they sent;
\* get: the latest GET request (parity, publishes, response);
\* tick: the latest tick of afk_status_updater (parity of the ticks,
\* last_break and current_time it compared, publishes it sent, how its
\* publish ended, the value its store(0) replaced, -1 when it stored nothing).
NoTick == [seq |-> 0, last |-> 0, at |-> 0, pubs |-> 0, outcome |-> "none", over |-> -1]

NoGet == [seq |-> 0, pubs |-> 0, status |-> "none", body |-> <<>>]

NoBody ==
  [json |-> FALSE, event_id |-> FALSE, payload |-> "absent",
   validation_code |-> "absent", code |-> "none", start |-> "absent", stop |-> "absent"]

NoObs ==
  [seq |-> 0, req |-> NoBody, pubs |-> 0, status |-> "none", body |-> <<>>,
   outcome |-> "none", run |-> 0, busy |-> 0, get |-> NoGet, tick |-> NoTick]

\* ------------------------------------------------------------- Init
Init ==
  /\ mainPc = "establish"
  /\ gen = 0
  /\ sigInstalled = FALSE
  /\ ctrlcPending = FALSE
  /\ interrupts = 0
  /\ interruptedIn = "none"
  /\ rsPc = "none"
  /\ srv = "none"
  /\ last_break_start = 0
  /\ shutdown_signal = NewNotify
  /\ afkPc = "none"
  /\ afkRead = 0
  /\ hcPc = "none"
  /\ hcExit = "none"
  /\ hcTriggers = 0
  /\ handler = "idle"
  /\ response = "none"
  /\ lastPub = "none"
  /\ owed = FALSE
  /\ leftover = [presence |-> FALSE, signal |-> FALSE]
  /\ obs = NoObs
  /\ now = 1

\* ------------------------------------------------------------- main
\* main, lines 379-390: start_ngrok_listener(&settings).await; Err: log and
\* sleep 10 s; Ok: spawn run_server and enter the select (the first poll of
\* signal::ctrl_c() installs the SIGINT handler; every ctrl_c() future sees
\* only signals that arrive after it was created).
start_ngrok_listener ==
  /\ mainPc = "establish"
  /\ \E ok \in BOOLEAN :
       IF ok
         THEN /\ gen < MaxGen
              /\ mainPc' = "select"
              /\ gen' = gen + 1
              /\ sigInstalled' = TRUE
              /\ ctrlcPending' = FALSE
              /\ rsPc' = "start"
              /\ UNCHANGED srv
         ELSE /\ mainPc' = "sleep10"
              /\ UNCHANGED <<gen, sigInstalled, ctrlcPending, rsPc, srv>>
  /\ UNCHANGED <<interrupts, interruptedIn, last_break_start, shutdown_signal, afkVars, hcVars,
                 hookVars, lastPub, owed, leftover, obs, now>>

\* main, lines 383-384: tokio::time::sleep(10 s).await; continue
main_retry_sleep ==
  /\ mainPc = "sleep10"
  /\ mainPc' = "establish"
  /\ UNCHANGED <<gen, sigInstalled, ctrlcPending, interrupts, interruptedIn, genVars,
                 last_break_start, shutdown_signal, afkVars, hcVars, hookVars,
                 lastPub, owed, leftover, obs, now>>

\* main without the wait for run_server: the select returns while it runs
main_server_exited_no_join ==
  /\ mainPc = "select"
  /\ rsPc \in {"serve", "join_hc", "join_afk", "done", "panicked"}
  /\ mainPc' = "sleep5"
  /\ ctrlcPending' = FALSE
  /\ UNCHANGED <<gen, sigInstalled, interrupts, interruptedIn, genVars, last_break_start,
                 shutdown_signal, afkVars, hcVars, hookVars, lastPub, owed,
                 leftover, obs, now>>

\* main, lines 391-397 and 405 (first half): the server_handler branch of the
\* select: run_server returned or its task panicked; the ctrl_c() future of
\* this select is dropped
main_server_exited ==
  /\ mainPc = "select"
  /\ rsPc \in {"done", "panicked"}
  /\ mainPc' = "sleep5"
  /\ ctrlcPending' = FALSE
  /\ UNCHANGED <<gen, sigInstalled, interrupts, interruptedIn, genVars, last_break_start,
                 shutdown_signal, afkVars, hcVars, hookVars, lastPub, owed, leftover, obs, now>>

\* main that gives up when the server task panicked
main_restart_sleep_unless_panicked ==
  /\ mainPc = "sleep5"
  /\ mainPc' = IF rsPc = "panicked" THEN "exited" ELSE "establish"
  /\ UNCHANGED <<gen, sigInstalled, ctrlcPending, interrupts, interruptedIn, genVars,
                 last_break_start, shutdown_signal, afkVars, hcVars, hookVars,
                 lastPub, owed, leftover, obs, now>>

\* main, line 405: the 5 s nap is over, next iteration of the loop
main_restart_sleep ==
  /\ mainPc = "sleep5"
  /\ mainPc' = "establish"
  /\ UNCHANGED <<gen, sigInstalled, ctrlcPending, interrupts, interruptedIn, genVars,
                 last_break_start, shutdown_signal, afkVars, hcVars, hookVars,
                 lastPub, owed, leftover, obs, now>>

\* main, lines 398-401 and 408: the ctrl_c branch of the select: break, return
\* Ok(()); the runtime is dropped with every task where it stands
main_ctrl_c ==
  /\ mainPc = "select"
  /\ ctrlcPending
  /\ mainPc' = "exited"
  /\ UNCHANGED <<gen, sigInstalled, ctrlcPending, interrupts, interruptedIn, genVars,
                 last_break_start, shutdown_signal, afkVars, hcVars, hookVars,
                 lastPub, owed, leftover, obs, now>>

\* The operator sends SIGINT. Before the first ctrl_c() the default
\* disposition ends the process; afterwards the signal reaches the ctrl_c()
\* future of the select main is in, and nobody when main is not in a select.
Interrupt ==
  /\ ProcessAlive
  /\ interrupts < MaxInterrupts
  /\ interrupts' = interrupts + 1
  /\ interruptedIn' = mainPc
  /\ IF ~sigInstalled
       THEN mainPc' = "killed" /\ UNCHANGED ctrlcPending
       ELSE /\ ctrlcPending' = (ctrlcPending \/ mainPc = "select")
            /\ UNCHANGED mainPc
  /\ UNCHANGED <<gen, sigInstalled, genVars, last_break_start, shutdown_signal,
                 afkVars, hcVars, hookVars, lastPub, owed, leftover, obs, now>>

\* ------------------------------------------------------------- run_server
\* cells that outlive a generation
ReusedCells(old) == old

\* run_server, lines 229-230: the cells of a generation
FreshCells(old) == [presence |-> 0, signal |-> NewNotify]

\* run_server, lines 229-253: fresh cells, router, server future (its
\* Notified future is created, not yet polled), the two tasks spawned
run_server_init ==
  /\ ProcessAlive
  /\ rsPc = "start"
  /\ LET cells == FreshCells([presence |-> last_break_start, signal |-> shutdown_signal])
     IN /\ last_break_start' = cells.presence
        /\ shutdown_signal' = cells.signal
  /\ rsPc' = "serve"
  /\ srv' = "unpolled"
  /\ afkPc' = "loop"
  /\ afkRead' = 0
  /\ hcPc' = "loop"
  /\ hcExit' = "none"
  /\ hcTriggers' = 0
  /\ handler' = "idle"
  /\ response' = "none"
  /\ owed' = FALSE
  /\ leftover' = [presence |-> last_break_start # 0,
                  signal |-> shutdown_signal # NewNotify]
  /\ UNCHANGED <<mainVars, lastPub, obs, now>>

\* run_server, line 255, first poll of the server: with_graceful_shutdown
\* polls shutdown_future, which takes a stored permit or registers as waiter
server_first_poll ==
  /\ ProcessAlive
  /\ rsPc = "serve"
  /\ srv = "unpolled"
  /\ IF shutdown_signal.permit
       THEN srv' = "draining" /\ shutdown_signal' = consume(shutdown_signal)
       ELSE srv' = "running" /\ shutdown_signal' = register(shutdown_signal, "server")
  /\ leftover' = [presence |-> FALSE, signal |-> FALSE]
  /\ UNCHANGED <<mainVars, rsPc, last_break_start, afkVars, hcVars, hookVars,
                 lastPub, owed, obs, now>>

\* run_server, lines 243-245: shutdown_future completed: graceful shutdown, no
\* new connection is accepted
server_graceful_shutdown ==
  /\ ProcessAlive
  /\ rsPc = "serve"
  /\ srv = "running"
  /\ shutdown_signal.woken["server"] # "no"
  /\ srv' = "draining"
  /\ shutdown_signal' = [shutdown_signal EXCEPT !.woken["server"] = "no"]
  /\ UNCHANGED <<mainVars, rsPc, last_break_start, afkVars, hcVars, hookVars,
                 lastPub, owed, leftover, obs, now>>

\* run_server, lines 255-259: server.await returns Ok once the connections in
\* flight are done; then shutdown_signal.notify_waiters()
server_drained ==
  /\ ProcessAlive
  /\ rsPc = "serve"
  /\ srv = "draining"
  /\ handler = "idle"
  /\ srv' = "exited_ok"
  /\ shutdown_signal' = notify_waiters(shutdown_signal)
  /\ rsPc' = "join_hc"
  /\ UNCHANGED <<mainVars, last_break_start, afkVars, hcVars, hookVars,
                 lastPub, owed, leftover, obs, now>>

\* run_server, lines 255-259: the listener ends (Ok) or fails (Err, logged)
\* while the server runs: server.await returns, its Notified future is
\* dropped; then shutdown_signal.notify_waiters(). Connections in flight
\* finish on their own.
server_stops ==
  /\ ProcessAlive
  /\ rsPc = "serve"
  /\ srv \in {"running", "draining"}
  /\ \E res \in {"exited_ok", "exited_err"} : srv' = res
  /\ shutdown_signal' = notify_waiters(drop_notified(shutdown_signal, "server"))
  /\ rsPc' = "join_hc"
  /\ UNCHANGED <<mainVars, last_break_start, afkVars, hcVars, hookVars,
                 lastPub, owed, leftover, obs, now>>

\* run_server, line 261: ngrok_healthcheck_handler.await
run_server_join_healthcheck ==
  /\ ProcessAlive
  /\ rsPc = "join_hc"
  /\ hcPc = "done"
  /\ rsPc' = "join_afk"
  /\ UNCHANGED <<mainVars, srv, last_break_start, shutdown_signal, afkVars,
                 hcVars, hookVars, lastPub, owed, leftover, obs, now>>

\* run_server, lines 262-264: afk_status_updater_handle.await; Ok(())
run_server_join_afk ==
  /\ ProcessAlive
  /\ rsPc = "join_afk"
  /\ afkPc = "done"
  /\ rsPc' = "done"
  /\ UNCHANGED <<mainVars, srv, last_break_start, shutdown_signal, afkVars,
                 hcVars, hookVars, lastPub, owed, leftover, obs, now>>

\* main, line 395: the run_server task panics (JoinError): the server is
\* dropped with the task, the JoinHandles of the two tasks are dropped and
\* the tasks detached
run_server_panics ==
  /\ ProcessAlive
  /\ rsPc \in {"serve", "join_hc", "join_afk"}
  /\ rsPc' = "panicked"
  /\ srv' = IF srv \in {"exited_ok", "exited_err"} THEN srv ELSE "dropped"
  /\ afkPc' = IF afkPc = "done" THEN "done" ELSE "detached"
  /\ afkRead' = 0
  /\ hcPc' = IF hcPc = "done" THEN "done" ELSE "detached"
  /\ UNCHANGED <<mainVars, last_break_start, shutdown_signal, hcExit,
                 hcTriggers, hookVars, lastPub, owed, leftover, obs, now>>

\* ------------------------------------------------------------- afk_status_updater
\* afk_status_updater, lines 276-282, the select is polled with no tick due:
\* shutdown_signal.notified() takes a stored permit (and the loop breaks) or
\* registers as a waiter
afk_status_updater_poll ==
  /\ ProcessAlive
  /\ afkPc = "loop"
  /\ IF shutdown_signal.permit
       THEN afkPc' = "done" /\ shutdown_signal' = consume(shutdown_signal)
       ELSE afkPc' = "waiting" /\ shutdown_signal' = register(shutdown_signal, "afk")
  /\ UNCHANGED <<mainVars, genVars, last_break_start, afkRead, hcVars, hookVars,
                 lastPub, owed, leftover, obs, now>>

\* afk_status_updater, lines 278-281: the notified() branch of the select
afk_status_updater_cancelled ==
  /\ ProcessAlive
  /\ afkPc = "waiting"
  /\ shutdown_signal.woken["afk"] # "no"
  /\ afkPc' = "done"
  /\ shutdown_signal' = [shutdown_signal EXCEPT !.woken["afk"] = "no"]
  /\ UNCHANGED <<mainVars, genVars, last_break_start, afkRead, hcVars, hookVars,
                 lastPub, owed, leftover, obs, now>>

\* Expired with the threshold itself counted as past it
ExpiredInclusive(last_break, current_time) ==
  last_break # 0 /\ current_time >= last_break + Threshold

\* afk_status_updater, lines 284-290: whether a tick finds a break that has
\* lasted longer than the threshold
Expired(last_break, current_time) ==
  last_break # 0 /\ current_time > last_break + Threshold

\* how a setChatTitle request ends: a 2xx answer, another answer, no answer
\* (webhook_post, lines 157-167 and 184-194)
PublishOutcomes == {"success", "rejected", "transport_error"}

\* afk_status_updater, lines 277 and 284-304: the tick branch of the select
\* (the first tick of an interval is due at once); the Notified future of
\* this select is dropped; load, compare, and issue the away publish
afk_status_updater_tick_body ==
  /\ ProcessAlive
  /\ afkPc \in {"loop", "waiting"}
  /\ shutdown_signal' = drop_notified(shutdown_signal, "afk")
  /\ LET last_break == last_break_start
     IN IF Expired(last_break, now)
          THEN /\ afkPc' = "publishing"
               /\ afkRead' = last_break
               /\ lastPub' = "away"
               /\ owed' = FALSE
          ELSE /\ afkPc' = "loop"
               /\ UNCHANGED <<afkRead, lastPub, owed>>
  /\ UNCHANGED <<mainVars, genVars, last_break_start, hcVars, hookVars, leftover, now>>

afk_status_updater_tick == afk_status_updater_tick_body /\ UNCHANGED obs

\* afk_status_updater, lines 304-310: the publish returns (any outcome, it is
\* only logged); last_break_start.store(0)
afk_status_updater_published_with(outcome) ==
  /\ ProcessAlive
  /\ afkPc = "publishing"
  /\ last_break_start' = 0
  /\ afkPc' = "loop"
  /\ afkRead' = 0
  /\ UNCHANGED <<mainVars, genVars, shutdown_signal, hcVars, hookVars, lastPub,
                 owed, leftover, now>>

afk_status_updater_published ==
  \E outcome \in PublishOutcomes :
    afk_status_updater_published_with(outcome) /\ UNCHANGED obs

\* ------------------------------------------------------------- ngrok_healthcheck
\* ngrok_healthcheck, lines 320-326, the select is polled with no tick due
ngrok_healthcheck_poll ==
  /\ ProcessAlive
  /\ hcPc = "loop"
  /\ IF shutdown_signal.permit
       THEN /\ hcPc' = "done"
            /\ hcExit' = "cancelled"
            /\ shutdown_signal' = consume(shutdown_signal)
       ELSE /\ hcPc' = "waiting"
            /\ hcExit' = hcExit
            /\ shutdown_signal' = register(shutdown_signal, "hc")
  /\ UNCHANGED <<mainVars, genVars, last_break_start, afkVars, hcTriggers,
                 hookVars, lastPub, owed, leftover, obs, now>>

\* ngrok_healthcheck, lines 322-325: the notified() branch of the select
ngrok_healthcheck_cancelled ==
  /\ ProcessAlive
  /\ hcPc = "waiting"
  /\ shutdown_signal.woken["hc"] # "no"
  /\ hcPc' = "done"
  /\ hcExit' = "cancelled"
  /\ shutdown_signal' = [shutdown_signal EXCEPT !.woken["hc"] = "no"]
  /\ UNCHANGED <<mainVars, genVars, last_break_start, afkVars, hcTriggers,
                 hookVars, lastPub, owed, leftover, obs, now>>

\* ngrok_healthcheck, lines 321 and 328-329: the tick branch of the select;
\* the Notified future is dropped and the probe is sent
ngrok_healthcheck_tick ==
  /\ ProcessAlive
  /\ hcPc \in {"loop", "waiting"}
  /\ hcPc' = "probing"
  /\ shutdown_signal' = drop_notified(shutdown_signal, "hc")
  /\ UNCHANGED <<mainVars, genVars, last_break_start, afkVars, hcExit,
                 hcTriggers, hookVars, lastPub, owed, leftover, obs, now>>

\* the outcomes of client.get(&url).send().await
ProbeOutcomes == {"200", "non200", "error"}

\* ngrok_healthcheck without the break after notify_one
ngrok_healthcheck_probed_no_break ==
  /\ ProcessAlive
  /\ hcPc = "probing"
  /\ \E outcome \in ProbeOutcomes :
       /\ outcome = "200" => srv = "running"
       /\ IF outcome # "200"
            THEN /\ shutdown_signal' = notify_one(shutdown_signal)
                 /\ hcTriggers' = IF hcTriggers < 2 THEN hcTriggers + 1 ELSE hcTriggers
                 /\ hcExit' = "failed"
                 /\ hcPc' = "loop"
            ELSE /\ hcPc' = "loop"
                 /\ UNCHANGED <<shutdown_signal, hcTriggers, hcExit>>
  /\ UNCHANGED <<mainVars, genVars, last_break_start, afkVars, hookVars,
                 lastPub, owed, leftover, obs, now>>

\* ngrok_healthcheck, lines 329-334: the probe returns; anything but a 200
\* (which only a server that accepts connections can give): notify_one, break
ngrok_healthcheck_probed ==
  /\ ProcessAlive
  /\ hcPc = "probing"
  /\ \E outcome \in ProbeOutcomes :
       /\ outcome = "200" => srv = "running"
       /\ IF outcome # "200"
            THEN /\ shutdown_signal' = notify_one(shutdown_signal)
                 /\ hcTriggers' = hcTriggers + 1
                 /\ hcExit' = "failed"
                 /\ hcPc' = "done"
            ELSE /\ hcPc' = "loop"
                 /\ UNCHANGED <<shutdown_signal, hcTriggers, hcExit>>
  /\ UNCHANGED <<mainVars, genVars, last_break_start, afkVars, hookVars,
                 lastPub, owed, leftover, obs, now>>

\* ------------------------------------------------------------- webhook_post
\* A request body: whether it parses as JSON, whether event_id is there, the
\* shape of payload, and the fields the handler looks at ("str": a JSON
\* string, "other": any other JSON value); code is the text of
\* validation_code when that is a string.
Shapes == {"absent", "str", "other"}

Codes == {"c1", "c2"}

Bodies ==
  { b \in [json : BOOLEAN, event_id : BOOLEAN,
           payload : {"absent", "ping", "str", "obj", "other"},
           validation_code : Shapes, code : Codes \cup {"none"},
           start : Shapes, stop : Shapes] :
      /\ ~b.json => (~b.event_id /\ b.payload = "absent")
      /\ b.payload # "ping" => b.validation_code = "absent"
      /\ b.validation_code = "str" <=> b.code \in Codes
      /\ b.payload # "obj" => (b.start = "absent" /\ b.stop = "absent") }

\* Classify rejecting a body only when event_id and payload are both missing
ClassifyIfBothMissing(b) ==
  IF ~b.json THEN "bad_json"
  ELSE IF ~b.event_id /\ b.payload = "absent" THEN "malformed"
  ELSE IF b.payload = "ping"
    THEN IF b.validation_code = "str" THEN "validation" ELSE "validation_missing"
  ELSE IF b.payload = "obj" /\ b.start = "str" /\ b.stop = "str" THEN "stopped"
  ELSE IF b.payload = "obj" /\ b.start = "str" THEN "started"
  ELSE "ignored"

\* Classify taking a payload with a stop and no start for a stop event
ClassifyStopAlone(b) ==
  IF ~b.json THEN "bad_json"
  ELSE IF ~b.event_id \/ b.payload = "absent" THEN "malformed"
  ELSE IF b.payload = "ping"
    THEN IF b.validation_code = "str" THEN "validation" ELSE "validation_missing"
  ELSE IF b.payload = "obj" /\ b.stop = "str" THEN "stopped"
  ELSE IF b.payload = "obj" /\ b.start = "str" THEN "started"
  ELSE "ignored"

\* webhook_post, lines 83-201: what the handler makes of a body
Classify(b) ==
  IF ~b.json THEN "bad_json"
  ELSE IF ~b.event_id \/ b.payload = "absent" THEN "malformed"
  ELSE IF b.payload = "ping"
    THEN IF b.validation_code = "str" THEN "validation" ELSE "validation_missing"
  ELSE IF b.payload = "obj" /\ b.start = "str" /\ b.stop = "str" THEN "stopped"
  ELSE IF b.payload = "obj" /\ b.start = "str" THEN "started"
  ELSE "ignored"

\* webhook_post, lines 87, 103, 113, 116, 201: the response of a request that
\* awaits nothing
Respond(class) ==
  CASE class = "bad_json" -> "400"
    [] class = "malformed" -> "422"
    [] class = "validation" -> "200v"
    [] class = "validation_missing" -> "400"
    [] OTHER -> "200"

\* ResponseBody answering every validation request with the same code
ResponseBodyConstant(b) ==
  IF Classify(b) = "validation" THEN <<"validation_code", "c1">> ELSE <<>>

\* webhook_post, lines 112-113: json!({ "validation_code": validation_code });
\* every other response has an empty body
ResponseBody(b) ==
  IF Classify(b) = "validation" THEN <<"validation_code", b.code>> ELSE <<>>

\* webhook_post_on with the stop branch leaving last_break_start alone
webhook_post_on_no_store(b) ==
  /\ ProcessAlive
  /\ srv = "running"
  /\ handler = "idle"
  /\ LET class == Classify(b)
     IN CASE class = "stopped" ->
               /\ lastPub' = "break"
               /\ handler' = "pub_break"
               /\ owed' = TRUE
               /\ UNCHANGED <<last_break_start, response>>
          [] class = "started" ->
               /\ lastPub' = "busy"
               /\ handler' = "pub_busy"
               /\ owed' = FALSE
               /\ UNCHANGED <<last_break_start, response>>
          [] OTHER ->
               /\ response' = Respond(class)
               /\ UNCHANGED <<last_break_start, lastPub, handler, owed>>
  /\ UNCHANGED <<mainVars, genVars, shutdown_signal, afkVars, hcVars, leftover, now>>

\* webhook_post, lines 82-155 and 171-182: a request is accepted and handled
\* up to its response or to the await of its publish; a stop event stores the
\* clock before the publish is sent
webhook_post_on(b) ==
  /\ ProcessAlive
  /\ srv = "running"
  /\ handler = "idle"
  /\ LET class == Classify(b)
     IN CASE class = "stopped" ->
               /\ last_break_start' = now
               /\ lastPub' = "break"
               /\ handler' = "pub_break"
               /\ owed' = TRUE
               /\ UNCHANGED response
          [] class = "started" ->
               /\ lastPub' = "busy"
               /\ handler' = "pub_busy"
               /\ owed' = FALSE
               /\ UNCHANGED <<last_break_start, response>>
          [] OTHER ->
               /\ response' = Respond(class)
               /\ UNCHANGED <<last_break_start, lastPub, handler, owed>>
  /\ UNCHANGED <<mainVars, genVars, shutdown_signal, afkVars, hcVars, leftover, now>>

webhook_post == \E b \in Bodies : webhook_post_on(b) /\ UNCHANGED obs

\* webhook_post_published_with with the start branch leaving
\* last_break_start alone
webhook_post_published_no_reset(outcome) ==
  /\ ProcessAlive
  /\ handler # "idle"
  /\ handler' = "idle"
  /\ response' = "200"
  /\ UNCHANGED <<mainVars, genVars, last_break_start, shutdown_signal, afkVars,
                 hcVars, lastPub, owed, leftover, now>>

\* webhook_post_published_with giving up when the publish did not succeed
webhook_post_published_if_sent(outcome) ==
  /\ ProcessAlive
  /\ handler # "idle"
  /\ last_break_start' = IF handler = "pub_busy" /\ outcome = "success"
                            THEN 0 ELSE last_break_start
  /\ handler' = "idle"
  /\ response' = IF outcome = "success" THEN "200" ELSE "400"
  /\ UNCHANGED <<mainVars, genVars, shutdown_signal, afkVars, hcVars, lastPub,
                 owed, leftover, now>>

\* webhook_post, lines 155-168 and 182-197: the publish returns (any outcome,
\* it is only logged); a start event stores 0 now; 200
webhook_post_published_with(outcome) ==
  /\ ProcessAlive
  /\ handler # "idle"
  /\ last_break_start' = IF handler = "pub_busy" THEN 0 ELSE last_break_start
  /\ handler' = "idle"
  /\ response' = "200"
  /\ UNCHANGED <<mainVars, genVars, shutdown_signal, afkVars, hcVars, lastPub,
                 owed, leftover, now>>

webhook_post_published ==
  \E outcome \in PublishOutcomes :
    webhook_post_published_with(outcome) /\ UNCHANGED obs

\* webhook_get, lines 204-206: a static page, 200; nothing of the program
\* changes
webhook_get_body ==
  /\ ProcessAlive
  /\ srv = "running"
  /\ UNCHANGED progVars

webhook_get == webhook_get_body /\ UNCHANGED obs

\* ------------------------------------------------------------- clock
\* get_unix_timestamp, lines 78-80: the wall clock moves on
clock_advance ==
  /\ ProcessAlive
  /\ now < MaxTime
  /\ now' = now + 1
  /\ UNCHANGED <<mainVars, genVars, last_break_start, shutdown_signal, afkVars,
                 hcVars, hookVars, lastPub, owed, leftover, obs>>

\* ------------------------------------------------------------- specification
Next ==
  \/ start_ngrok_listener
  \/ main_retry_sleep
  \/ main_server_exited
  \/ main_restart_sleep
  \/ main_ctrl_c
  \/ Interrupt
  \/ run_server_init
  \/ server_first_poll
  \/ server_graceful_shutdown
  \/ server_drained
  \/ server_stops
  \/ run_server_join_healthcheck
  \/ run_server_join_afk
  \/ run_server_panics
  \/ afk_status_updater_poll
  \/ afk_status_updater_cancelled
  \/ afk_status_updater_tick
  \/ afk_status_updater_published
  \/ ngrok_healthcheck_poll
  \/ ngrok_healthcheck_cancelled
  \/ ngrok_healthcheck_tick
  \/ ngrok_healthcheck_probed
  \/ webhook_post
  \/ webhook_post_published
  \/ webhook_get
  \/ clock_advance

Spec == Init /\ [][Next]_vars

\* The runtime runs every task that can make a step, timers fire, requests
\* sent get an answer and the clock moves; what the operator, the tunnel and
\* the clients of /webhook do is not assumed (Interrupt, server_stops,
\* run_server_panics, webhook_post, webhook_get).
Fairness ==
  /\ WF_vars(start_ngrok_listener)
  /\ WF_vars(main_retry_sleep)
  /\ WF_vars(main_server_exited)
  /\ WF_vars(main_restart_sleep)
  /\ WF_vars(main_ctrl_c)
  /\ WF_vars(run_server_init)
  /\ WF_vars(server_first_poll)
  /\ WF_vars(server_graceful_shutdown)
  /\ WF_vars(server_drained)
  /\ WF_vars(run_server_join_healthcheck)
  /\ WF_vars(run_server_join_afk)
  /\ WF_vars(afk_status_updater_poll)
  /\ WF_vars(afk_status_updater_cancelled)
  /\ WF_vars(afk_status_updater_tick)
  /\ WF_vars(afk_status_updater_published)
  /\ WF_vars(ngrok_healthcheck_poll)
  /\ WF_vars(ngrok_healthcheck_cancelled)
  /\ WF_vars(ngrok_healthcheck_tick)
  /\ WF_vars(ngrok_healthcheck_probed)
  /\ WF_vars(webhook_post_published)
  /\ WF_vars(clock_advance)

FairSpec == Spec /\ Fairness

\* ------------------------------------------------------------- one generation, observed
\* The first generation once its server runs (after start_ngrok_listener,
\* run_server_init and server_first_poll), with the requests to /webhook and
\* the ticks of afk_status_updater recorded in obs.  The supervisor, the
\* server's shutdown and ngrok_healthcheck take no step here.
HandlerInit ==
  /\ mainPc = "select"
  /\ gen = 1
  /\ sigInstalled = TRUE
  /\ ctrlcPending = FALSE
  /\ interrupts = 0
  /\ interruptedIn = "none"
  /\ rsPc = "serve"
  /\ srv = "running"
  /\ last_break_start = 0
  /\ shutdown_signal = register(NewNotify, "server")
  /\ afkPc = "loop"
  /\ afkRead = 0
  /\ hcPc = "loop"
  /\ hcExit = "none"
  /\ hcTriggers = 0
  /\ handler = "idle"
  /\ response = "none"
  /\ lastPub = "none"
  /\ owed = FALSE
  /\ leftover = [presence |-> FALSE, signal |-> FALSE]
  /\ obs = NoObs
  /\ now = 1

Min(a, b) == IF a < b THEN a ELSE b

\* The events Toggl sends (spec 4.1): a stop event carries the strings start
\* and stop in its payload object, a start event the string start and no
\* string stop.
StopEvent(b) ==
  b.json /\ b.event_id /\ b.payload = "obj" /\ b.start = "str" /\ b.stop = "str"

StartEvent(b) ==
  b.json /\ b.event_id /\ b.payload = "obj" /\ b.start = "str" /\ b.stop # "str"

\* a POST request is accepted: the observer notes what it was, whether a
\* publish is awaited, and the response if it came at once
webhook_post_observed ==
  \E b \in Bodies :
    /\ webhook_post_on(b)
    /\ LET sent == IF handler' # "idle" THEN 1 ELSE 0
       IN obs' = [obs EXCEPT
                    !.seq = 1 - obs.seq,
                    !.req = b,
                    !.pubs = sent,
                    !.status = IF handler' # "idle" THEN "none" ELSE response',
                    !.body = ResponseBody(b),
                    !.outcome = "none",
                    !.run = IF StartEvent(b) THEN Min(obs.run + 1, MaxRun) ELSE 0,
                    !.busy = IF StartEvent(b) THEN Min(obs.busy + sent, MaxRun) ELSE 0]

\* the publish of the request in flight ends; a handler that still awaits
\* a publish afterwards has sent another one
webhook_post_published_observed ==
  \E outcome \in PublishOutcomes :
    /\ webhook_post_published_with(outcome)
    /\ obs' = [obs EXCEPT
                 !.outcome = outcome,
                 !.pubs = obs.pubs + (IF handler' # "idle" THEN 1 ELSE 0),
                 !.status = IF handler' # "idle" THEN "none" ELSE response']

\* a GET request is served
webhook_get_observed ==
  /\ webhook_get_body
  /\ obs' = [obs EXCEPT !.get = [seq |-> 1 - obs.get.seq,
                                 pubs |-> IF lastPub' # lastPub THEN 1 ELSE 0,
                                 status |-> "200", body |-> <<"<h4>Ok</h4>">>]]

\* a tick of afk_status_updater: what it loaded, when, and whether it
\* awaits a publish
afk_status_updater_tick_observed ==
  /\ afk_status_updater_tick_body
  /\ obs' = [obs EXCEPT !.tick = [seq |-> 1 - obs.tick.seq,
                                  last |-> last_break_start, at |-> now,
                                  pubs |-> IF afkPc' = "publishing" THEN 1 ELSE 0,
                                  outcome |-> "none", over |-> -1]]

\* the publish of the tick ends; the value its store(0) replaced
afk_status_updater_published_observed ==
  \E outcome \in PublishOutcomes :
    /\ afk_status_updater_published_with(outcome)
    /\ obs' = [obs EXCEPT
                 !.tick.outcome = outcome,
                 !.tick.pubs = obs.tick.pubs + (IF afkPc' = "publishing" THEN 1 ELSE 0),
                 !.tick.over = IF last_break_start' = 0 /\ afkPc' # "publishing"
                                 THEN last_break_start ELSE -1]

HandlerNext ==
  \/ webhook_post_observed
  \/ webhook_post_published_observed
  \/ webhook_get_observed
  \/ afk_status_updater_poll
  \/ afk_status_updater_tick_observed
  \/ afk_status_updater_published_observed
  \/ clock_advance

HandlerSpec == HandlerInit /\ [][HandlerNext]_vars

\* ------------------------------------------------------------- claims
ServerExited == srv \in {"exited_ok", "exited_err", "dropped"}

\* C1: in every generation a failed self-probe makes ngrok_healthcheck call
\* notify_one exactly once and leave its loop for good (no further probe);
\* when it observes the signal instead it leaves the loop without triggering.
C1_ProbeFailureTriggersOnce ==
  /\ hcExit = "failed" => (hcTriggers = 1 /\ hcPc = "done")
  /\ hcExit = "cancelled" => (hcTriggers = 0 /\ hcPc = "done")
  /\ hcExit = "none" => hcTriggers = 0

C1_Witness == hcExit = "failed" /\ hcTriggers = 1 /\ hcPc = "done"

\* C2: whenever a self-probe has failed in a running generation, the signal
\* reaches the HTTP server: the server eventually shuts down (the first step
\* of the restart the claim describes), unless the process ends.
C2_ProbeFailureReachesServer ==
  []((hcExit = "failed" /\ rsPc = "serve") =>
       <>(srv \in {"draining", "exited_ok", "exited_err", "dropped"} \/ ~ProcessAlive))

\* C3: once run_server has fired the signal after the server's exit, both
\* tasks terminate and run_server returns (unless the process ends or the
\* run_server task panics).
C3_BroadcastReachesEveryTask ==
  [](rsPc \in {"join_hc", "join_afk"} =>
       <>(rsPc \in {"done", "panicked"} \/ ~ProcessAlive))

\* C4: main attempts to establish a tunnel only when no HTTP server of an
\* earlier generation runs and the earlier run_server task has completed.
C4_OneGenerationAtATime ==
  mainPc = "establish" =>
    (rsPc \in {"none", "done", "panicked"} /\ (srv = "none" \/ ServerExited))

C4_Witness == mainPc = "establish" /\ gen >= 1 /\ rsPc = "done" /\ srv = "exited_err"

\* C5: the process ends only by the operator's interrupt; a failed
\* establishment, a server that exited (normally or with an error) and a
\* run_server task that panicked all lead main back to another attempt.
C5_OnlyOperatorEndsProcess ==
  [][/\ (ProcessAlive /\ ~ProcessAlive') =>
          \/ (mainPc = "select" /\ ctrlcPending /\ interrupts > 0 /\ mainPc' = "exited")
          \/ (interrupts' = interrupts + 1 /\ mainPc' = "killed")
     /\ (mainPc \in {"sleep10", "sleep5"} /\ mainPc' # mainPc /\ ProcessAlive') =>
          mainPc' = "establish"
     /\ (mainPc = "select" /\ mainPc' # mainPc /\ ProcessAlive') =>
          (rsPc \in {"done", "panicked"} /\ mainPc' = "sleep5")
     /\ (mainPc = "establish" /\ mainPc' # mainPc /\ ProcessAlive') =>
          mainPc' \in {"sleep10", "select"}]_vars

C5_Witness == mainPc = "establish" /\ rsPc = "panicked" /\ gen >= 1

\* C6: an interrupt raised in any phase of the loop eventually ends the
\* process; stated for the phases outside the select the claim names: the
\* 10-second retry wait and the 5-second restart delay.
C6_InterruptAlwaysHonored ==
  [](interruptedIn \in {"sleep10", "sleep5"} => <>(~ProcessAlive))

\* C7: when main leaves the loop on an interrupt, the generation has been
\* torn down: the server has exited, both tasks are done and run_server has
\* returned (or its task had panicked, or had not created anything yet).
C7_ExitAfterTeardown ==
  mainPc = "exited" =>
    \/ rsPc \in {"start", "panicked"}
    \/ (rsPc = "done" /\ ServerExited /\ afkPc = "done" /\ hcPc = "done")

\* C8: without an interrupt, a failed establishment and the end of a
\* generation's server are each eventually followed by an establishment
\* attempt.
C8_SelfHealingRestart ==
  []((mainPc = "sleep10" \/ (mainPc = "select" /\ rsPc # "start" /\ ServerExited)) =>
       <>(mainPc = "establish" \/ interrupts > 0))

\* C9: when the tasks of a generation start, last_break_start is 0 and the
\* signal is untriggered, whatever the generation before left behind.
GenerationAtStart ==
  rsPc = "serve" /\ srv = "unpolled" /\ afkPc = "loop" /\ hcPc = "loop"

C9_FreshCellsPerGeneration ==
  GenerationAtStart => (last_break_start = 0 /\ shutdown_signal = NewNotify)

C9_Witness ==
  /\ GenerationAtStart
  /\ gen >= 2
  /\ leftover.presence
  /\ leftover.signal
  /\ last_break_start = 0
  /\ shutdown_signal = NewNotify

\* C10: in a generation that keeps running, a stop event with no later start
\* event is eventually followed by an away publish (as far as the bounded
\* clock can pass the threshold of the stored timestamp).
GenerationRunning ==
  ProcessAlive /\ rsPc = "serve" /\ afkPc \notin {"done", "detached"}

ClockExhausted ==
  last_break_start # 0 /\ last_break_start + Threshold >= MaxTime

C10_BreakDegradesToAway ==
  [](owed => <>(~owed \/ ~GenerationRunning \/ ClockExhausted))

\* A POST request enters the handler in this step; obs'.req is its body.
Served == obs'.seq # obs.seq

\* C11: a stop event (payload object with string fields start and stop)
\* stores the current second, which is not 0, sends exactly one break
\* publish, and is answered 200 once the publish has ended.
C11_StopStoresAndPublishesBreak ==
  [][/\ (Served /\ StopEvent(obs'.req)) =>
          /\ last_break_start' = now
          /\ now # 0
          /\ lastPub' = "break"
          /\ handler' = "pub_break"
          /\ obs'.pubs = 1
     /\ (handler = "pub_break" /\ handler' # handler) =>
          /\ handler' = "idle"
          /\ obs'.pubs = 1
          /\ obs'.status = "200"
          /\ response' = "200"]_vars

C11_Witness ==
  /\ StopEvent(obs.req)
  /\ handler = "idle"
  /\ obs.status = "200"
  /\ obs.pubs = 1
  /\ lastPub = "break"
  /\ last_break_start = now

\* C12: a start event (payload object whose start is a string and whose
\* stop is not) sends exactly one busy publish, leaves last_break_start at 0
\* and is answered 200; start events in a row each do the same, so that as
\* many busy publishes have been sent as start events were handled.
C12_StartResetsAndPublishesBusy ==
  [][/\ (Served /\ StartEvent(obs'.req) /\ obs'.req.stop = "absent") =>
          /\ lastPub' = "busy"
          /\ handler' = "pub_busy"
          /\ obs'.pubs = 1
          /\ obs'.busy = obs'.run
     /\ (handler = "pub_busy" /\ handler' # handler) =>
          /\ handler' = "idle"
          /\ last_break_start' = 0
          /\ obs'.pubs = 1
          /\ obs'.busy = obs'.run
          /\ obs'.status = "200"
          /\ response' = "200"]_vars

C12_Witness ==
  /\ StartEvent(obs.req)
  /\ obs.req.stop = "absent"
  /\ obs.run = 2
  /\ obs.busy = 2
  /\ handler = "idle"
  /\ obs.status = "200"
  /\ last_break_start = 0

\* The request served in this step stored nothing, sent no publish and
\* awaits none.
Untouched ==
  /\ last_break_start' = last_break_start
  /\ lastPub' = lastPub
  /\ handler' = "idle"
  /\ obs'.pubs = 0

ValidationRequest(b) == b.json /\ b.event_id /\ b.payload = "ping"

\* C13: a request whose payload is the string ping (and that has an
\* event_id) and whose validation_code is the string V is answered 200 with
\* the JSON body {"validation_code": V}; one with no validation_code is
\* answered 400; neither stores anything nor sends a publish.
C13_ValidationEchoesCode ==
  [][/\ (Served /\ ValidationRequest(obs'.req) /\ obs'.req.validation_code = "str") =>
          /\ obs'.status = "200v"
          /\ response' = "200v"
          /\ obs'.body = <<"validation_code", obs'.req.code>>
          /\ Untouched
     /\ (Served /\ ValidationRequest(obs'.req) /\ obs'.req.validation_code = "absent") =>
          /\ obs'.status = "400"
          /\ response' = "400"
          /\ obs'.body = <<>>
          /\ Untouched]_vars

C13_Witness ==
  /\ ValidationRequest(obs.req)
  /\ obs.req.code = "c2"
  /\ obs.status = "200v"
  /\ obs.body = <<"validation_code", "c2">>
  /\ obs.pubs = 0
  /\ last_break_start # 0
  /\ lastPub = "break"

\* C14: a body that parses as JSON and lacks event_id or lacks payload is
\* answered 422; nothing is stored and no publish is sent.
C14_MalformedIsRejected ==
  [][(Served /\ obs'.req.json /\ (~obs'.req.event_id \/ obs'.req.payload = "absent")) =>
       /\ obs'.status = "422"
       /\ response' = "422"
       /\ obs'.body = <<>>
       /\ Untouched]_vars

C14_Witness ==
  /\ obs.req.json
  /\ ~obs.req.event_id
  /\ obs.req.payload = "obj"
  /\ obs.req.start = "str"
  /\ obs.req.stop = "str"
  /\ obs.status = "422"
  /\ obs.pubs = 0
  /\ handler = "idle"
  /\ last_break_start # 0
  /\ lastPub = "break"

\* A tick of afk_status_updater runs in this step.
Ticked == obs'.tick.seq # obs.tick.seq

\* The tick of this step sent nothing and stored nothing.
NoSweep ==
  /\ last_break_start' = last_break_start
  /\ lastPub' = lastPub
  /\ afkPc' = "loop"
  /\ obs'.tick.pubs = 0

\* C15: a tick of afk_status_updater that finds last_break_start = L at
\* time now does nothing when L = 0, sends one away publish and then stores
\* 0 when L > 0 and now > L + Threshold, and sends nothing and leaves L in
\* place when L > 0 and now <= L + Threshold (equality included).
C15_SweeperTick ==
  [][/\ (Ticked /\ last_break_start = 0) => NoSweep
     /\ (Ticked /\ last_break_start > 0 /\ now > last_break_start + Threshold) =>
          /\ lastPub' = "away"
          /\ afkPc' = "publishing"
          /\ obs'.tick.pubs = 1
     /\ (Ticked /\ last_break_start > 0 /\ now <= last_break_start + Threshold) => NoSweep
     /\ (afkPc = "publishing" /\ afkPc' # afkPc) =>
          /\ afkPc' = "loop"
          /\ obs'.tick.pubs = 1
          /\ last_break_start' = 0]_vars

C15_Witness ==
  /\ obs.tick.last > 0
  /\ obs.tick.at = obs.tick.last + Threshold
  /\ obs.tick.pubs = 0
  /\ afkPc = "loop"
  /\ last_break_start = obs.tick.last
  /\ now = obs.tick.at

\* The publish of the request in flight, or of the tick in flight, ends in
\* this step.
HandlerPublishEnds ==
  handler # "idle" /\ (handler' # handler \/ obs'.outcome # obs.outcome)

SweeperPublishEnds ==
  afkPc = "publishing" /\ (afkPc' # afkPc \/ obs'.tick.outcome # obs.tick.outcome)

\* C16: however a publish ends (success, rejection, transport error) the
\* state change goes through and nothing is sent again: the timestamp of a
\* stop event is not taken back, a start event and an away tick store 0, and
\* the handler answers 200.
C16_FailedPublishDoesNotBlock ==
  [][/\ HandlerPublishEnds =>
          /\ obs'.outcome \in PublishOutcomes
          /\ handler' = "idle"
          /\ obs'.pubs = obs.pubs
          /\ obs'.status = "200"
          /\ response' = "200"
          /\ last_break_start' = IF handler = "pub_busy" THEN 0 ELSE last_break_start
     /\ SweeperPublishEnds =>
          /\ obs'.tick.outcome \in PublishOutcomes
          /\ afkPc' = "loop"
          /\ obs'.tick.pubs = obs.tick.pubs
          /\ last_break_start' = 0]_vars

C16_Witness ==
  /\ StopEvent(obs.req)
  /\ obs.outcome = "transport_error"
  /\ obs.pubs = 1
  /\ obs.status = "200"
  /\ handler = "idle"
  /\ last_break_start = now
  /\ obs.tick.outcome = "rejected"

\* An event the handler has nothing to do for (spec 4.1, Ignored): event_id
\* and payload are there, the payload is not the string ping, and it is
\* neither a stop nor a start event (an object with no string start, a string
\* other than ping, any other JSON value).
IgnoredEvent(b) ==
  /\ b.json /\ b.event_id
  /\ b.payload \notin {"absent", "ping"}
  /\ ~StopEvent(b) /\ ~StartEvent(b)

\* C17: a body that does not parse (400), an ignored event (200) and a GET
\* request (200, the static page) store nothing and send no publish.
C17_OtherRequestsChangeNothing ==
  [][/\ (Served /\ ~obs'.req.json) =>
          /\ obs'.status = "400"
          /\ response' = "400"
          /\ Untouched
     /\ (Served /\ IgnoredEvent(obs'.req)) =>
          /\ obs'.status = "200"
          /\ response' = "200"
          /\ Untouched
     /\ (obs'.get.seq # obs.get.seq) =>
          /\ obs'.get.status = "200"
          /\ obs'.get.body = <<"<h4>Ok</h4>">>
          /\ obs'.get.pubs = 0
          /\ last_break_start' = last_break_start
          /\ lastPub' = lastPub
          /\ handler' = handler]_vars

C17_Witness ==
  /\ IgnoredEvent(obs.req)
  /\ obs.req.payload = "obj"
  /\ obs.req.stop = "str"
  /\ obs.status = "200"
  /\ obs.pubs = 0
  /\ obs.get.seq = 1
  /\ obs.get.status = "200"
  /\ handler = "idle"
  /\ last_break_start # 0
  /\ lastPub = "break"

\* C18: in webhook_post the store comes before the publish: when the break
\* publish of a stop event is in flight the timestamp is stored, and when
\* the busy publish of a start event is in flight last_break_start is 0.
C18_StoreBeforePublish ==
  [][/\ (Served /\ StopEvent(obs'.req) /\ handler' = "pub_break") =>
          last_break_start' = now
     /\ (Served /\ StartEvent(obs'.req) /\ handler' = "pub_busy") =>
          last_break_start' = 0]_vars

\* No request and no tick awaits a publish.
Quiescent == handler = "idle" /\ afkPc # "publishing"

\* C19: when no request and no tick is in flight, last_break_start > 0
\* exactly when the publish sent last was break; and when the latest
\* request is a start event that has been answered, the publish sent last
\* is busy.
C19_StatusAgreesAtQuiescence ==
  Quiescent =>
    /\ (last_break_start > 0 <=> lastPub = "break")
    /\ (StartEvent(obs.req) /\ obs.status = "200") => lastPub = "busy"

\* C20: the store(0) that ends a tick of afk_status_updater replaces only
\* the timestamp the tick loaded; a timestamp a stop event stored while the
\* away publish was in flight is still there after the tick.
C20_ResetKeepsNewerBreak ==
  [][(SweeperPublishEnds /\ last_break_start # afkRead) =>
       last_break_start' = last_break_start]_vars

====
